---- MODULE Spec2Model ----
(***************************************************************************)
(* Worker registration service: the flat-file variant (app.py) and the     *)
(* relational variant (app_back.py, db.py).  Registration, record lookup,  *)
(* QR composition with face overlay, and the regenerate-on-miss QR cache.  *)
(*                                                                         *)
(* Text is a sequence of tokens: the token " " is one whitespace           *)
(* character, every other token is a run of non-whitespace characters      *)
(* (digits and signs are one character per token wherever they are         *)
(* parsed).  A JSON value is a tagged record: Null, Str(text), Num(int).   *)
(***************************************************************************)
EXTENDS Integers, Sequences, FiniteSets, TLC

(***************************************************************************)
(* Values                                                                  *)
(***************************************************************************)
Null == [t |-> "null"]
Str(s) == [t |-> "str", s |-> s]
Num(n) == [t |-> "int", n |-> n]

IsNull(v) == v.t = "null"
IsStr(v) == v.t = "str"
IsNum(v) == v.t = "int"

\* Python truthiness of a JSON value: None, "" and 0 are falsy.
Truthy(v) ==
    CASE IsNull(v) -> FALSE
      [] IsStr(v) -> v.s # <<>>
      [] IsNum(v) -> v.n # 0

\* Python's `x or y`.
Or(x, y) == IF Truthy(x) THEN x ELSE y

\* An exception raised inside a handler, as a value.
Raise(kind) == [t |-> "exc", kind |-> kind]
IsExc(v) == v.t = "exc"

(***************************************************************************)
(* str.strip(), int(), str()                                               *)
(***************************************************************************)
RECURSIVE LStrip(_)
LStrip(s) == IF s # <<>> /\ Head(s) = " " THEN LStrip(Tail(s)) ELSE s

RECURSIVE RStrip(_)
RStrip(s) ==
    IF s # <<>> /\ s[Len(s)] = " " THEN RStrip(SubSeq(s, 1, Len(s) - 1)) ELSE s

\* Faulty variant: the text is taken as sent.
StripNothing(s) == s

Strip(s) == RStrip(LStrip(s))

Digits == <<"0", "1", "2", "3", "4", "5", "6", "7", "8", "9">>

IsDigit(c) == \E i \in 1..Len(Digits) : Digits[i] = c
DigitVal(c) == (CHOOSE i \in 1..Len(Digits) : Digits[i] = c) - 1
AllDigits(s) == s # <<>> /\ \A i \in 1..Len(s) : IsDigit(s[i])

RECURSIVE DigitsToNat(_)
DigitsToNat(s) ==
    IF s = <<>> THEN 0
    ELSE 10 * DigitsToNat(SubSeq(s, 1, Len(s) - 1)) + DigitVal(s[Len(s)])

RECURSIVE NatToDigits(_)
NatToDigits(n) ==
    IF n < 10 THEN <<Digits[n + 1]>>
    ELSE NatToDigits(n \div 10) \o <<Digits[(n % 10) + 1]>>

\* str(n) of a Python int.
IntToText(n) == IF n < 0 THEN <<"-">> \o NatToDigits(-n) ELSE NatToDigits(n)

\* int(text): surrounding whitespace is ignored, one optional sign, then
\* decimal digits; anything else raises ValueError.
ParseIntText(s) ==
    LET b == Strip(s)
        signed == b # <<>> /\ Head(b) \in {"-", "+"}
        d == IF signed THEN Tail(b) ELSE b
    IN  IF ~AllDigits(d) THEN Raise("ValueError")
        ELSE IF signed /\ Head(b) = "-" THEN Num(-DigitsToNat(d))
        ELSE Num(DigitsToNat(d))

\* int(v) of a JSON value that is an int or a str.
PyInt(v) == IF IsNum(v) THEN v ELSE ParseIntText(v.s)

(***************************************************************************)
(* Dates: datetime.strptime(text, '%Y-%m-%d') and strftime('%Y-%m-%d')     *)
(***************************************************************************)
Date(y, m, d) == [t |-> "date", y |-> y, m |-> m, d |-> d]
IsDate(v) == v.t = "date"

IsLeap(y) == (y % 4 = 0 /\ y % 100 # 0) \/ y % 400 = 0
DaysIn(y, m) ==
    IF m = 2 THEN (IF IsLeap(y) THEN 29 ELSE 28)
    ELSE IF m \in {4, 6, 9, 11} THEN 30 ELSE 31

\* The positions of the "-" tokens of a text.
Dashes(s) == {i \in 1..Len(s) : s[i] = "-"}

\* %Y is exactly four digits, %m one or two digits in 1..12, %d one or two
\* digits in 1..31; the whole text must match, and datetime() rejects a day
\* the month does not have.
Strptime(s) ==
    IF Cardinality(Dashes(s)) # 2 THEN Raise("ValueError")
    ELSE
      LET i == CHOOSE k \in Dashes(s) : \A j \in Dashes(s) : k <= j
          j == CHOOSE k \in Dashes(s) : k # i
          ys == SubSeq(s, 1, i - 1)
          ms == SubSeq(s, i + 1, j - 1)
          ds == SubSeq(s, j + 1, Len(s))
          shaped == /\ AllDigits(ys) /\ Len(ys) = 4
                    /\ AllDigits(ms) /\ Len(ms) <= 2
                    /\ AllDigits(ds) /\ Len(ds) <= 2
      IN  IF ~shaped THEN Raise("ValueError")
          ELSE
            LET y == DigitsToNat(ys)
                m == DigitsToNat(ms)
                d == DigitsToNat(ds)
            IN  IF y >= 1 /\ m \in 1..12 /\ d >= 1 /\ d <= DaysIn(y, m)
                THEN Date(y, m, d)
                ELSE Raise("ValueError")

\* n as at least w digits, zero padded.
RECURSIVE Pad(_, _)
Pad(s, w) == IF Len(s) >= w THEN s ELSE Pad(<<"0">> \o s, w)

Strftime(dt) ==
    Pad(NatToDigits(dt.y), 4) \o <<"-">> \o Pad(NatToDigits(dt.m), 2)
        \o <<"-">> \o Pad(NatToDigits(dt.d), 2)

NextDay(dt) ==
    IF dt.d < DaysIn(dt.y, dt.m) THEN Date(dt.y, dt.m, dt.d + 1)
    ELSE IF dt.m < 12 THEN Date(dt.y, dt.m + 1, 1)
    ELSE Date(dt.y + 1, 1, 1)

(***************************************************************************)
(* base64.b64decode (non-strict).  Bytes are written as the sequence of    *)
(* base64 groups that encodes them: a full group of four characters is     *)
(* three bytes, a final group of three or two characters is two or one.    *)
(***************************************************************************)
B64Alphabet == {"i", "V", "B", "O", "R", "w", "K", "G", "g", "A", "Z", "m", "v"} \cup
               {Digits[i] : i \in 1..Len(Digits)}

RECURSIVE Filter(_, _)
Filter(s, set) ==
    IF s = <<>> THEN <<>>
    ELSE IF Head(s) \in set THEN <<Head(s)>> \o Filter(Tail(s), set)
    ELSE Filter(Tail(s), set)

RECURSIVE Groups(_)
Groups(s) ==
    IF s = <<>> THEN <<>>
    ELSE IF Len(s) <= 4 THEN <<s>>
    ELSE <<SubSeq(s, 1, 4)>> \o Groups(SubSeq(s, 5, Len(s)))

\* Characters outside the alphabet are discarded; padding must complete the
\* last group, else binascii.Error.
B64Decode(s) ==
    LET data == Filter(s, B64Alphabet)
        pads == Len(Filter(s, {"="}))
        rest == Len(data) % 4
    IN  IF rest = 1 \/ (rest = 2 /\ pads < 2) \/ (rest = 3 /\ pads < 1)
        THEN Raise("binascii.Error")
        ELSE [t |-> "bytes", b |-> Groups(data)]

\* face_b64_data.split(',')[1]: the text between the first and the second comma.
Commas(s) == {i \in 1..Len(s) : s[i] = ","}
SplitSecond(s) ==
    LET i == CHOOSE k \in Commas(s) : \A j \in Commas(s) : k <= j
        later == {k \in Commas(s) : k > i}
        j == IF later = {} THEN Len(s) + 1
             ELSE CHOOSE k \in later : \A l \in later : k <= l
    IN  SubSeq(s, i + 1, j - 1)

(***************************************************************************)
(* Files and images                                                        *)
(***************************************************************************)
NoFile == [t |-> "nofile"]
Bytes(b) == [t |-> "bytes", b |-> b]
\* A file that has been opened for writing and not written yet.
EmptyFile == Bytes(<<>>)
Exists(f) == f.t # "nofile"

\* os.path.join(dir, filename): a directory holds a file under any name.
FileAt(dir, filename) == IF filename \in DOMAIN dir THEN dir[filename] ELSE NoFile

\* The directory after the file of that name has been (re)written.
WriteFile(dir, filename, f) ==
    [x \in DOMAIN dir \cup {filename} |-> IF x = filename THEN f ELSE dir[x]]

\* The first three bytes of a PNG file (89 50 4E) in base64.
PngSignature == <<"i", "V", "B", "O">>

\* Image.open identifies the file by its signature.
Identifiable(f) == f.b # <<>> /\ f.b[1] = PngSignature
\* Image.convert loads the pixel data; a file cut after its header fails here.
Loadable(f) == Identifiable(f) /\ Len(f.b) >= 2

NoOverlay == [t |-> "none"]
\* The bordered thumbnail of a face, pasted bottom-right.
Thumb(f) == [t |-> "thumb", of |-> f.b]
\* A composed QR image: the encoded text and what is pasted on it.
Png(content, overlay) == [t |-> "png", content |-> content, overlay |-> overlay]

(***************************************************************************)
(* create_worker: reading and normalising the submission                   *)
(***************************************************************************)
\* (data.get(key) or '').strip(): a truthy non-string has no strip().
TextField(v) ==
    LET x == Or(v, Str(<<>>))
    IN  IF IsStr(x) THEN Str(Strip(x.s)) ELSE Raise("AttributeError")

\* int(data.get('age') or 0) or ''
AgeField(v) ==
    LET n == PyInt(Or(v, Num(0)))
    IN  IF IsExc(n) THEN n ELSE Or(n, Str(<<>>))

\* int(data.get('vaccinationCount') or 0)
CountField(v) == PyInt(Or(v, Num(0)))

\* Faulty variant: the submitted date is ignored.
DateFieldToday(v, now) == Str(Strftime(now))

\* data.get('registrationDate') or datetime.utcnow().strftime('%Y-%m-%d')
DateField(v, now) == Or(v, Str(Strftime(now)))

\* The JSON keys read as text, in the order the flat-file handler reads them.
TextKeys ==
    <<"fullName", "gender", "phone", "address", "nativeState", "bloodGroup",
      "maritalStatus", "language", "financialStatus">>
\* The further text keys the relational handler reads.
ClinicalKeys ==
    <<"allergies", "conditions", "inheritedDiseases", "previousTreatments">>

\* The first exception among the values, or Null when none raised.
FirstExc(vals) ==
    IF \E i \in 1..Len(vals) : IsExc(vals[i])
    THEN vals[CHOOSE i \in 1..Len(vals) :
                 IsExc(vals[i]) /\ \A j \in 1..(i - 1) : ~IsExc(vals[j])]
    ELSE Null

\* The locals of create_worker after its parsing lines, or [t |-> "blank"] when
\* the identifier is empty after trimming, or the exception the parsing raised.
Normalize(v, data, now) ==
    LET health_id == TextField(data.healthId)
    IN  IF IsExc(health_id) THEN health_id
        ELSE IF ~Truthy(health_id) THEN [t |-> "blank"]
        ELSE
          LET age == AgeField(data.age)
              texts == [i \in 1..Len(TextKeys) |-> TextField(data[TextKeys[i]])]
              clin == [i \in 1..Len(ClinicalKeys) |->
                          TextField(data[ClinicalKeys[i]])]
              count == CountField(data.vaccinationCount)
              \* evaluation order: fullName, age, the other text keys, then
              \* (relational variant) the clinical keys and the count
              order == <<texts[1], age>> \o SubSeq(texts, 2, Len(texts))
                         \o (IF v = "db" THEN clin \o <<count>> ELSE <<>>)
              exc == FirstExc(order)
          IN  IF IsExc(exc) THEN exc
              ELSE [t |-> "ok",
                    health_id |-> health_id.s,
                    full_name |-> texts[1].s,
                    age |-> age,
                    gender |-> texts[2].s,
                    phone |-> texts[3].s,
                    address |-> texts[4].s,
                    native_state |-> texts[5].s,
                    blood_group |-> texts[6].s,
                    marital_status |-> texts[7].s,
                    language |-> texts[8].s,
                    financial_status |-> texts[9].s,
                    allergies |-> IF v = "db" THEN clin[1].s ELSE <<>>,
                    conditions |-> IF v = "db" THEN clin[2].s ELSE <<>>,
                    inherited_diseases |-> IF v = "db" THEN clin[3].s ELSE <<>>,
                    previous_treatments |-> IF v = "db" THEN clin[4].s ELSE <<>>,
                    vaccination_count |-> IF v = "db" THEN count ELSE Num(0),
                    registration_date |-> DateField(data.registrationDate, now),
                    face_b64 |-> data.faceImage]

\* f"{health_id}.png"
FileName(health_id) == health_id \o <<".png">>

\* _save_face_image: the outcome of decoding, before the file is written:
\* the bytes to write, or the exception that makes it return ''.
DecodeFace(face_b64) ==
    IF ~IsStr(face_b64) THEN Raise("TypeError")
    ELSE IF Commas(face_b64.s) # {} THEN B64Decode(SplitSecond(face_b64.s))
    ELSE B64Decode(face_b64.s)

(***************************************************************************)
(* QR payload and composition                                              *)
(***************************************************************************)
\* json.dumps of the payload dict: the ordered (key, value) pairs.
\* create_worker of app.py: nine fields.
QrPayloadCsv(l) ==
    <<<<"healthId", Str(l.health_id)>>,
      <<"fullName", Str(l.full_name)>>,
      <<"gender", Str(l.gender)>>,
      <<"address", Str(l.address)>>,
      <<"nativeState", Str(l.native_state)>>,
      <<"bloodGroup", Str(l.blood_group)>>,
      <<"maritalStatus", Str(l.marital_status)>>,
      <<"financialStatus", Str(l.financial_status)>>,
      <<"registrationDate", l.registration_date>>>>

\* create_worker of app_back.py: five fields.
QrPayloadDb(l) ==
    <<<<"healthId", Str(l.health_id)>>,
      <<"fullName", Str(l.full_name)>>,
      <<"gender", Str(l.gender)>>,
      <<"nativeState", Str(l.native_state)>>,
      <<"registrationDate", l.registration_date>>>>

\* get_worker_qr of app.py: the payload rebuilt from the row read back.
RebuildPayloadCsv(row) ==
    <<<<"healthId", Str(row.health_id)>>,
      <<"fullName", Str(row.full_name)>>,
      <<"gender", Str(row.gender)>>,
      <<"address", Str(row.address)>>,
      <<"nativeState", Str(row.native_state)>>,
      <<"bloodGroup", Str(row.blood_group)>>,
      <<"maritalStatus", Str(row.marital_status)>>,
      <<"financialStatus", Str(row.financial_status)>>,
      <<"registrationDate", Str(row.registration_date)>>>>

\* get_worker_qr of app_back.py.
RebuildPayloadDb(row) ==
    <<<<"healthId", Str(row.health_id)>>,
      <<"fullName", Str(row.full_name)>>,
      <<"gender", Str(row.gender)>>,
      <<"nativeState", Str(row.native_state)>>,
      <<"registrationDate", Str(row.registration_date)>>>>

\* The steps of the overlay block of _generate_qr_image, in order.
OverlaySteps == <<"open", "convert", "thumbnail", "border", "paste">>
\* What can go wrong in the overlay block besides the face data itself
\* (memory, I/O): a failure at one step, or none.
OverlayFaults == {"none"} \cup {OverlaySteps[i] : i \in 1..Len(OverlaySteps)}

\* The step at which the overlay block raises, or "done" when it completes.
\* Only called for a face file that exists.
OverlayOutcome(face, fault) ==
    IF fault = "open" \/ ~Identifiable(face) THEN "open"
    ELSE IF fault = "convert" \/ ~Loadable(face) THEN "convert"
    ELSE IF fault # "none" THEN fault
    ELSE "done"

\* Faulty variant: the thumbnail is pasted whenever the face file exists, whatever
\* happens in the rest of the overlay block.
ComposeQrPasteAnyway(content, face_filename, facefiles, fault) ==
    IF face_filename # <<>> /\ Exists(FileAt(facefiles, face_filename))
    THEN Png(content, [t |-> "thumb", of |-> FileAt(facefiles, face_filename).b])
    ELSE Png(content, NoOverlay)

\* _generate_qr_image up to the save: qr_img is pasted on only by the last
\* statement of the try block; any exception before it is swallowed.
ComposeQr(content, face_filename, facefiles, fault) ==
    IF face_filename # <<>> /\ Exists(FileAt(facefiles, face_filename))
       /\ OverlayOutcome(FileAt(facefiles, face_filename), fault) = "done"
    THEN Png(content, Thumb(FileAt(facefiles, face_filename)))
    ELSE Png(content, NoOverlay)

(***************************************************************************)
(* Inputs                                                                  *)
(***************************************************************************)
Keys ==
    {"healthId", "age", "vaccinationCount", "registrationDate", "faceImage"}
        \cup {TextKeys[i] : i \in 1..Len(TextKeys)}
        \cup {ClinicalKeys[i] : i \in 1..Len(ClinicalKeys)}

\* A submission with no key at all.
Absent == [k \in Keys |-> Null]

\* Identifiers.  W1 is the first seeded worker of the relational variant.
W1 == <<"W10", "0", "1">>
W2 == <<"W20", "0", "0">>
Unknown == <<"W99">>
PathIds == {W1, W2, Unknown}
FileNames == {FileName(i) : i \in PathIds}

\* Face payloads.
FaceGood == <<"i", "V", "B", "O", "R", "w", "0", "K">>
\* The same bytes as a data URL, with a line break inside the base64 text.
FaceDataUrl ==
    <<"data:image/png;base64", ",", "i", "V", "B", "O", "\n", "R", "w", "0", "K">>
FaceHeaderOnly == <<"i", "V", "B", "O">>
FaceNotImage == <<"Z", "m", "9", "v">>
FaceBadPadding == <<"i", "V", "B", "O", "R">>

Date1 == <<"2", "0", "2", "4", "-", "0", "1", "-", "1", "5">>
DateShort == <<"2", "0", "2", "4", "-", "1", "-", "5">>
DateSlash == <<"1", "5", "/", "0", "1", "/", "2", "0", "2", "4">>

\* A complete, clean submission.
Full(id) ==
    [Absent EXCEPT
        !.healthId = Str(id),
        !.fullName = Str(<<"Asha", " ", "Devi">>),
        !.age = Num(30),
        !.gender = Str(<<"Female">>),
        !.phone = Str(<<"98765">>),
        !.address = Str(<<"12", " ", "Main", " ", "Rd">>),
        !.nativeState = Str(<<"Bihar">>),
        !.bloodGroup = Str(<<"O+">>),
        !.maritalStatus = Str(<<"Single">>),
        !.language = Str(<<"hi">>),
        !.financialStatus = Str(<<"BPL">>),
        !.allergies = Str(<<"Dust">>),
        !.conditions = Str(<<"Asthma">>),
        !.inheritedDiseases = Str(<<"Diabetes">>),
        !.previousTreatments = Str(<<"Inhaler">>),
        !.vaccinationCount = Num(2),
        !.registrationDate = Str(Date1)]

\* The same worker with every text padded, numbers given as text, the date
\* omitted and a photo sent as a data URL.
Padded(id) ==
    [Absent EXCEPT
        !.healthId = Str(<<" ">> \o id \o <<" ">>),
        !.fullName = Str(<<" ", "Asha", " ", "Kumari", " ">>),
        !.age = Str(<<" ", "4", "1">>),
        !.gender = Str(<<"Female", " ">>),
        !.phone = Str(<<" ", "91234">>),
        !.address = Str(<<" ", "7", " ", "Hill", " ", "St", " ">>),
        !.nativeState = Str(<<" ", "Odisha">>),
        !.bloodGroup = Str(<<"B+", " ">>),
        !.maritalStatus = Str(<<" ", "Married", " ">>),
        !.language = Str(<<" ", "or">>),
        !.financialStatus = Str(<<"APL", " ">>),
        !.allergies = Str(<<" ", " ">>),
        !.conditions = Str(<<" ", "None", " ">>),
        !.inheritedDiseases = Str(<<>>),
        !.previousTreatments = Str(<<" ", "Vitamin", " ", "D">>),
        !.vaccinationCount = Str(<<"3", " ">>),
        !.faceImage = Str(FaceDataUrl)]

AgeInputs == {Num(0), Num(-3), Str(<<"a", "b">>)}
CountInputs == {Num(-1), Str(<<"x">>)}
DateInputs == {Str(DateShort), Str(DateSlash)}
FaceInputs ==
    {Str(FaceGood), Str(FaceHeaderOnly), Str(FaceNotImage), Str(FaceBadPadding),
     Num(7)}

\* Submissions for the first identifier: the full one with one key varied.
SubmissionsW1 ==
    {Full(W1), Padded(W1), [Absent EXCEPT !.healthId = Str(W1)],
     [Full(W1) EXCEPT !.fullName = Num(5)]}
        \cup {[Full(W1) EXCEPT !.age = a] : a \in AgeInputs}
        \cup {[Full(W1) EXCEPT !.vaccinationCount = c] : c \in CountInputs}
        \cup {[Full(W1) EXCEPT !.registrationDate = d] : d \in DateInputs}
        \cup {[Full(W1) EXCEPT !.faceImage = f] : f \in FaceInputs}
        \cup {[Full(W1) EXCEPT !.faceImage = Str(FaceBadPadding),
                                !.age = Str(<<"a", "b">>)],
              [Full(W1) EXCEPT !.faceImage = Str(FaceBadPadding),
                                !.registrationDate = Str(DateSlash)]}

\* Submissions for the second identifier.
SubmissionsW2 ==
    {[Full(W2) EXCEPT !.fullName = Str(<<" ", "Ravi">>), !.age = Null],
     [Full(W2) EXCEPT !.registrationDate = Str(DateSlash)]}

\* Submissions whose identifier is missing, empty or blank.
BlankIds == {Null, Str(<<>>), Str(<<" ", " ">>)}
SubmissionsBlank ==
    {[Full(W1) EXCEPT !.healthId = b, !.faceImage = Str(FaceGood)] : b \in BlankIds}
        \cup {Absent, [Full(W1) EXCEPT !.healthId = Num(12)]}

Submissions == SubmissionsW1 \cup SubmissionsW2 \cup SubmissionsBlank

(***************************************************************************)
(* State                                                                   *)
(***************************************************************************)
VARIABLES
    variant,    \* "csv": app.py is serving; "db": app_back.py is serving
    today,      \* the UTC date
    csv,        \* the rows of CSV_FILE below its header (app.py)
    workers,    \* the committed rows of table workers (app_back.py)
    faces,      \* FACE_IMAGE_DIR: file name -> file
    qrs,        \* QR_IMAGE_DIR: file name -> file
    pc,         \* per request thread: where its handler stands
    req,        \* per request thread: the request it is serving
    loc,        \* per request thread: the handler's locals
    resp,       \* per request thread: the response, once produced
    pre,        \* per request thread: the stores as the request arrived
    appointments \* the committed rows of table appointments (app_back.py)

vars ==
    <<variant, today, csv, workers, faces, qrs, pc, req, loc, resp, pre,
      appointments>>
stores == <<csv, workers, faces, qrs>>

NumThreads == 2
Threads == 1..NumThreads
\* How many times the date may change.
MaxDays == 1

NoReq == [kind |-> "none"]
NoResp == [status |-> 0]
NoLoc == [t |-> "none"]
NoPre == [t |-> "none"]
Snapshot ==
    [t |-> "stores", csv |-> csv, workers |-> workers, faces |-> faces,
     qrs |-> qrs, appointments |-> appointments]

StartDay == Date(2025, 9, 30)

(***************************************************************************)
(* Relational store: seed_demo_data and the workers table                  *)
(***************************************************************************)
SeedCount == 10

\* Worker i of seed_demo_data, as the row the commit inserts.
SeedWorker(i, now) ==
    [id |-> i,
     health_id |-> <<"W10">> \o Pad(NatToDigits(i), 2),
     full_name |-> Str(<<"Demo", " ", "Worker", " ">> \o NatToDigits(i)),
     age |-> Num(20 + i),
     gender |-> Str(IF i % 2 # 0 THEN <<"Male">> ELSE <<"Female">>),
     phone |-> Str(<<"9", "8">> \o Pad(NatToDigits(i), 8)),
     address |-> Str(<<"#">> \o NatToDigits(i)
                        \o <<" ", "Demo", " ", "Street,", " ", "City">>),
     native_state |-> Str(<<"State">>),
     blood_group |-> Str(IF i % 3 = 0 THEN <<"O+">> ELSE <<"B+">>),
     marital_status |-> Str(IF i % 2 # 0 THEN <<"Single">> ELSE <<"Married">>),
     language |-> Str(<<"en">>),
     financial_status |-> Str(IF i % 3 = 0 THEN <<"BPL">> ELSE <<"APL">>),
     allergies |-> Str(IF i % 4 = 0 THEN <<"Dust">> ELSE <<>>),
     conditions |-> Str(IF i % 5 = 0 THEN <<"Hypertension">> ELSE <<>>),
     inherited_diseases |-> Str(IF i % 6 = 0 THEN <<"Diabetes">> ELSE <<>>),
     previous_treatments |-> Str(<<"Vitamin", " ", "supplements">>),
     vaccination_count |-> Num(i % 4),
     registration_date |-> now,
     face_filename |-> Null,
     qr_filename |-> Null]

\* The specialities of the doctors of seed_demo_data, in order.
DoctorSpecialities ==
    <<"Cardiology", "Pulmonology", "General", "Endocrinology", "Orthopedics",
      "Dermatology", "Neurology", "ENT", "Pediatrics", "Gastroenterology">>

\* Appointment i of seed_demo_data: worker i with doctor docs[i % len(docs)].
SeedAppointment(i) ==
    LET d == (i % Len(DoctorSpecialities)) + 1
    IN  [id |-> i,
         worker_id |-> i,
         doctor_id |-> Num(d),
         doctor_speciality |-> Str(<<DoctorSpecialities[d]>>),
         status |-> "pending",
         requested_time |-> Str(<<"2025-10-01", " ", "10:00">>)]

\* session.query(DBWorker).filter_by(health_id=...).first(): the row's
\* position in the table, 0 when there is none.
DbFind(table, health_id) ==
    IF \E i \in 1..Len(table) : table[i].health_id = health_id
    THEN CHOOSE i \in 1..Len(table) :
            /\ table[i].health_id = health_id
            /\ \A j \in 1..(i - 1) : table[j].health_id # health_id
    ELSE 0

\* x or '' of a nullable text column.
OrEmpty(v) == IF IsNull(v) THEN <<>> ELSE v.s

\* _read_worker of app_back.py: the row as a dict of strings.
DbRowAsDict(w) ==
    [health_id |-> w.health_id,
     full_name |-> w.full_name.s,
     age |-> IF Truthy(w.age) THEN IntToText(w.age.n) ELSE <<>>,
     gender |-> OrEmpty(w.gender),
     phone |-> OrEmpty(w.phone),
     address |-> OrEmpty(w.address),
     native_state |-> OrEmpty(w.native_state),
     blood_group |-> OrEmpty(w.blood_group),
     marital_status |-> OrEmpty(w.marital_status),
     language |-> OrEmpty(w.language),
     financial_status |-> OrEmpty(w.financial_status),
     allergies |-> OrEmpty(w.allergies),
     conditions |-> OrEmpty(w.conditions),
     inherited_diseases |-> OrEmpty(w.inherited_diseases),
     previous_treatments |-> OrEmpty(w.previous_treatments),
     vaccination_count |->
         IF Truthy(w.vaccination_count) THEN IntToText(w.vaccination_count.n)
         ELSE <<"0">>,
     registration_date |->
         IF IsDate(w.registration_date) THEN Strftime(w.registration_date)
         ELSE <<>>,
     face_filename |-> OrEmpty(w.face_filename),
     qr_filename |-> OrEmpty(w.qr_filename)]

\* The row create_worker of app_back.py commits: its assignments to w.
\* registration_date is parsed when it is a str, and assigned as is otherwise.
DbRow(id, l, face_filename, qr_filename) ==
    [id |-> id,
     health_id |-> l.health_id,
     full_name |-> Str(l.full_name),
     age |-> IF Truthy(l.age) THEN l.age ELSE Null,
     gender |-> Str(l.gender),
     phone |-> Str(l.phone),
     address |-> Str(l.address),
     native_state |-> Str(l.native_state),
     blood_group |-> Str(l.blood_group),
     marital_status |-> Str(l.marital_status),
     language |-> Str(l.language),
     financial_status |-> Str(l.financial_status),
     allergies |-> Str(l.allergies),
     conditions |-> Str(l.conditions),
     inherited_diseases |-> Str(l.inherited_diseases),
     previous_treatments |-> Str(l.previous_treatments),
     vaccination_count |-> l.vaccination_count,
     registration_date |->
         IF IsStr(l.registration_date) THEN Strptime(l.registration_date.s)
         ELSE l.registration_date,
     face_filename |-> Str(face_filename),
     qr_filename |-> Str(qr_filename)]

(***************************************************************************)
(* Flat-file store: the rows of workers.csv                                *)
(***************************************************************************)
\* A lone surrogate code point, as json.loads makes of the escape \\ud800.
Surrogate == "U+D800"

\* The text can be encoded as UTF-8, the encoding CSV_FILE is opened with.
Encodable(s) == \A i \in 1..Len(s) : s[i] # Surrogate
RowEncodable(row) == \A col \in DOMAIN row : Encodable(row[col])

\* writer.writerows(rows) writes the rows in order and raises at the first one
\* it cannot encode: the rows that reach the file.
RECURSIVE RowsWritten(_)
RowsWritten(rows) ==
    IF rows = <<>> \/ ~RowEncodable(Head(rows)) THEN <<>>
    ELSE <<Head(rows)>> \o RowsWritten(Tail(rows))

\* What csv.DictWriter writes for a value, and csv.DictReader reads back.
CsvCell(v) == IF IsStr(v) THEN v.s ELSE IntToText(v.n)

\* The row dict create_worker of app.py builds (age through str()).
CsvRow(l, face_filename, qr_filename) ==
    [health_id |-> l.health_id,
     full_name |-> l.full_name,
     age |-> CsvCell(l.age),
     gender |-> l.gender,
     phone |-> l.phone,
     address |-> l.address,
     native_state |-> l.native_state,
     blood_group |-> l.blood_group,
     marital_status |-> l.marital_status,
     language |-> l.language,
     financial_status |-> l.financial_status,
     registration_date |-> CsvCell(l.registration_date),
     face_filename |-> face_filename,
     qr_filename |-> qr_filename]

\* Faulty variant: the row is appended whether or not the identifier has one.
UpsertRowsAppend(file, row) == Append(file, row)

\* The upsert loop: every row of the identifier is replaced, and the row is
\* appended when none was.
UpsertRows(file, row) ==
    IF \E i \in 1..Len(file) : file[i].health_id = row.health_id
    THEN [i \in 1..Len(file) |->
             IF file[i].health_id = row.health_id THEN row ELSE file[i]]
    ELSE Append(file, row)

\* _read_worker of app.py: the first row of the identifier, or Null.
CsvFind(file, health_id) ==
    IF \E i \in 1..Len(file) : file[i].health_id = health_id
    THEN file[CHOOSE i \in 1..Len(file) :
                 /\ file[i].health_id = health_id
                 /\ \A j \in 1..(i - 1) : file[j].health_id # health_id]
    ELSE Null

\* Faulty variant: no record is ever found.
ReadWorkerMiss(health_id) == Null

\* _read_worker of the variant serving.
ReadWorker(health_id) ==
    IF variant = "csv" THEN CsvFind(csv, health_id)
    ELSE IF DbFind(workers, health_id) = 0 THEN Null
    ELSE DbRowAsDict(workers[DbFind(workers, health_id)])

(***************************************************************************)
(* Initial state: module import                                            *)
(***************************************************************************)
Init ==
    /\ variant \in {"csv", "db"}
    /\ today = StartDay
    /\ csv = <<>>
    /\ workers = IF variant = "db"
                 THEN [i \in 1..SeedCount |-> SeedWorker(i, StartDay)]
                 ELSE <<>>
    /\ faces = [f \in FileNames |-> NoFile]
    /\ qrs = [f \in FileNames |-> NoFile]
    /\ pc = [p \in Threads |-> "idle"]
    /\ req = [p \in Threads |-> NoReq]
    /\ loc = [p \in Threads |-> NoLoc]
    /\ resp = [p \in Threads |-> NoResp]
    /\ pre = [p \in Threads |-> NoPre]
    /\ appointments = IF variant = "db"
                      THEN [i \in 1..SeedCount |-> SeedAppointment(i)]
                      ELSE <<>>

(***************************************************************************)
(* Requests, locals and responses                                          *)
(***************************************************************************)
Error(status, msg) == [status |-> status, body |-> [error |-> msg]]

\* f"{base_url}/api/workers/{health_id}/qr.png"
Url(health_id, leaf) == Str(<<"/api/workers/">> \o health_id \o <<leaf>>)

\* The 201 response of create_worker.
Saved(health_id, face_filename) ==
    [status |-> 201,
     body |-> [message |-> "Worker saved",
               healthId |-> health_id,
               qrUrl |-> Url(health_id, "/qr.png"),
               faceUrl |-> IF face_filename # <<>>
                           THEN Url(health_id, "/face.png") ELSE Null]]

\* The locals of a handler that may compose a QR image.
Locals(l, health_id, content, face_filename) ==
    [t |-> "locals",
     l |-> l,                          \* the parsed submission (create_worker)
     health_id |-> health_id,
     content |-> content,              \* qr_text / payload
     face_filename |-> face_filename,
     bytes |-> Null,                   \* image_bytes
     img |-> Null,                     \* qr_img
     overlay |-> "unused",             \* how the overlay block ended
     regenerated |-> FALSE,            \* _generate_qr_image has been called
     rows |-> <<>>,                    \* rows (app.py)
     found |-> 0]                      \* w, as a table position (app_back.py)

\* The handler of thread p returns r.
Return(p, r) ==
    /\ resp' = [resp EXCEPT ![p] = r]
    /\ pc' = [pc EXCEPT ![p] = "done"]

Goto(p, label) ==
    /\ pc' = [pc EXCEPT ![p] = label]
    /\ UNCHANGED resp

\* A request arrives at idle thread p.
Accept(p, r) ==
    /\ pc[p] = "idle"
    /\ req' = [req EXCEPT ![p] = r]
    /\ pre' = [pre EXCEPT ![p] = Snapshot]

\* The response has been sent; the thread is free again.
Finish(p) ==
    /\ pc[p] = "done"
    /\ pc' = [pc EXCEPT ![p] = "idle"]
    /\ req' = [req EXCEPT ![p] = NoReq]
    /\ loc' = [loc EXCEPT ![p] = NoLoc]
    /\ resp' = [resp EXCEPT ![p] = NoResp]
    /\ pre' = [pre EXCEPT ![p] = NoPre]
    /\ UNCHANGED <<variant, appointments, today, stores>>

(***************************************************************************)
(* POST /api/workers                                                       *)
(***************************************************************************)
\* create_worker up to the face image: identifier check, parsing, and the QR
\* payload (which reads only locals).  Nothing is written yet.
Register(p, data) ==
    /\ Accept(p, [kind |-> "register", data |-> data])
    /\ LET l == Normalize(variant, data, today)
       IN  CASE l.t = "blank" ->
                  /\ Return(p, Error(400, "healthId is required"))
                  /\ UNCHANGED loc
             [] l.t = "exc" ->
                  /\ Return(p, Error(500, l.kind))
                  /\ UNCHANGED loc
             [] OTHER ->
                  /\ loc' = [loc EXCEPT ![p] =
                               Locals(l, l.health_id,
                                      IF variant = "csv" THEN QrPayloadCsv(l)
                                      ELSE QrPayloadDb(l),
                                      <<>>)]
                  /\ Goto(p, "face")
    /\ UNCHANGED <<variant, appointments, today, stores>>

\* Faulty variant: the face file is opened for writing before the payload is decoded.
SaveFaceOpenFirst(p) ==
    /\ pc[p] = "face"
    /\ LET l == loc[p].l
           decoded == DecodeFace(l.face_b64)
       IN  IF Truthy(l.face_b64)
           THEN /\ faces' = WriteFile(faces, FileName(l.health_id), EmptyFile)
                /\ IF IsExc(decoded)
                   THEN UNCHANGED loc /\ Goto(p, "compose")
                   ELSE /\ loc' = [loc EXCEPT ![p].bytes = decoded]
                        /\ Goto(p, "face_write")
           ELSE /\ UNCHANGED <<faces, loc>>
                /\ Goto(p, "compose")
    /\ UNCHANGED <<variant, appointments, today, csv, workers, qrs, req, pre>>

\* _save_face_image up to open(path, 'wb'): skipped when no photo was sent; a
\* payload that does not decode gives '' without touching the file.
SaveFaceOpen(p) ==
    /\ pc[p] = "face"
    /\ LET l == loc[p].l
           decoded == DecodeFace(l.face_b64)
       IN  IF Truthy(l.face_b64) /\ ~IsExc(decoded)
           THEN /\ faces' = WriteFile(faces, FileName(l.health_id), EmptyFile)
                /\ loc' = [loc EXCEPT ![p].bytes = decoded]
                /\ Goto(p, "face_write")
           ELSE /\ UNCHANGED <<faces, loc>>
                /\ Goto(p, "compose")
    /\ UNCHANGED <<variant, appointments, today, csv, workers, qrs, req, pre>>

\* f.write(image_bytes), close, return filename.
SaveFaceWrite(p) ==
    /\ pc[p] = "face_write"
    /\ faces' = WriteFile(faces, FileName(loc[p].health_id), loc[p].bytes)
    /\ loc' = [loc EXCEPT ![p].face_filename = FileName(loc[p].health_id)]
    /\ Goto(p, "compose")
    /\ UNCHANGED <<variant, appointments, today, csv, workers, qrs, req, pre>>

\* _generate_qr_image up to the save: the QR symbol and the overlay block.
ComposeQrImage(p) ==
    /\ pc[p] = "compose"
    /\ \E fault \in OverlayFaults :
          LET fn == loc[p].face_filename
              tried == fn # <<>> /\ Exists(FileAt(faces, fn))
          IN  /\ ~tried => fault = "none"
              /\ loc' = [loc EXCEPT
                    ![p].img = ComposeQr(loc[p].content, fn, faces, fault),
                    ![p].overlay = IF tried THEN OverlayOutcome(FileAt(faces, fn), fault)
                                   ELSE "skipped",
                    ![p].regenerated = TRUE]
    /\ Goto(p, "qr_open")
    /\ UNCHANGED <<variant, appointments, today, stores, req, pre>>

\* qr_img.save: the file is opened for writing, which empties it.
SaveQrOpen(p) ==
    /\ pc[p] = "qr_open"
    /\ qrs' = WriteFile(qrs, FileName(loc[p].health_id), EmptyFile)
    /\ Goto(p, "qr_write")
    /\ UNCHANGED <<variant, appointments, today, csv, workers, faces, req, loc, pre>>

\* Faulty variant: the composed image is returned without being written.
SaveQrWriteSkipped(p) ==
    /\ pc[p] = "qr_write"
    /\ Goto(p, IF req[p].kind = "get_qr" THEN "send"
               ELSE IF variant = "csv" THEN "csv_read" ELSE "db_query")
    /\ UNCHANGED <<variant, appointments, today, stores, req, loc, pre>>

\* qr_img.save: the PNG is written and the file closed.
SaveQrWrite(p) ==
    /\ pc[p] = "qr_write"
    /\ qrs' = WriteFile(qrs, FileName(loc[p].health_id), loc[p].img)
    /\ Goto(p, IF req[p].kind = "get_qr" THEN "send"
               ELSE IF variant = "csv" THEN "csv_read" ELSE "db_query")
    /\ UNCHANGED <<variant, appointments, today, csv, workers, faces, req, loc, pre>>

\* app.py 165-206: the file is read and the new list of rows built.
CsvRead(p) ==
    /\ pc[p] = "csv_read"
    /\ loc' = [loc EXCEPT ![p].rows =
                 UpsertRows(csv, CsvRow(loc[p].l, loc[p].face_filename,
                                        FileName(loc[p].health_id)))]
    /\ Goto(p, "csv_open")
    /\ UNCHANGED <<variant, appointments, today, stores, req, pre>>

\* app.py 207: open(CSV_FILE, 'w') empties the file.
CsvOpen(p) ==
    /\ pc[p] = "csv_open"
    /\ csv' = <<>>
    /\ Goto(p, "csv_write")
    /\ UNCHANGED <<variant, appointments, today, workers, faces, qrs, req, loc, pre>>

\* app.py 208-220: header and rows are written, the file closed, 201 returned.
\* A row that cannot be encoded raises in writerows; the file keeps what was
\* written before it and the outer handler answers 500.
CsvWrite(p) ==
    /\ pc[p] = "csv_write"
    /\ csv' = RowsWritten(loc[p].rows)
    /\ IF \A i \in 1..Len(loc[p].rows) : RowEncodable(loc[p].rows[i])
       THEN Return(p, Saved(loc[p].health_id, loc[p].face_filename))
       ELSE Return(p, Error(500, "UnicodeEncodeError"))
    /\ UNCHANGED <<variant, appointments, today, workers, faces, qrs, req, loc, pre>>

\* app_back.py 197-202: the session looks the worker up.
DbQuery(p) ==
    /\ pc[p] = "db_query"
    /\ loc' = [loc EXCEPT ![p].found = DbFind(workers, loc[p].health_id)]
    /\ Goto(p, "db_commit")
    /\ UNCHANGED <<variant, appointments, today, stores, req, pre>>

\* app_back.py 203-236: the assignments and the commit.  A date that does not
\* parse raises before the commit; an INSERT of an identifier committed
\* meanwhile violates the unique index.  Either way the session is rolled
\* back and the outer handler answers 500.
DbCommit(p) ==
    /\ pc[p] = "db_commit"
    /\ LET l == loc[p].l
           at == loc[p].found
           id == IF at = 0 THEN Len(workers) + 1 ELSE workers[at].id
           row == DbRow(id, l, loc[p].face_filename, FileName(l.health_id))
       IN  IF IsExc(row.registration_date)
           THEN /\ Return(p, Error(500, row.registration_date.kind))
                /\ UNCHANGED workers
           ELSE IF at = 0 /\ DbFind(workers, l.health_id) # 0
           THEN /\ Return(p, Error(500, "IntegrityError"))
                /\ UNCHANGED workers
           ELSE /\ workers' = IF at = 0 THEN Append(workers, row)
                              ELSE [workers EXCEPT ![at] = row]
                /\ Return(p, Saved(l.health_id, loc[p].face_filename))
    /\ UNCHANGED <<variant, appointments, today, csv, faces, qrs, req, loc, pre>>

(***************************************************************************)
(* GET /api/workers/<health_id>, /qr.png, /face.png                        *)
(***************************************************************************)
\* get_worker: the record as JSON, or 404.
WorkerResponse(id) ==
    LET row == ReadWorker(id)
    IN  IF row = Null THEN Error(404, "Not found")
        ELSE [status |-> 200, body |-> row]

GetWorker(p, id) ==
    /\ Accept(p, [kind |-> "get_worker", id |-> id])
    /\ Return(p, WorkerResponse(id))
    /\ UNCHANGED <<variant, appointments, today, stores, loc>>

GetFace(p, id) ==
    /\ Accept(p, [kind |-> "get_face", id |-> id])
    /\ IF ~Exists(FileAt(faces, FileName(id))) THEN Return(p, Error(404, "Not found"))
       ELSE Return(p, [status |-> 200, body |-> FileAt(faces, FileName(id))])
    /\ UNCHANGED <<variant, appointments, today, stores, loc>>

\* Faulty variant: the cache is never consulted.
QrCachedNever(id) == FALSE

\* os.path.exists(path) of get_worker_qr.
QrCached(id) == Exists(FileAt(qrs, FileName(id)))

\* get_worker_qr: the os.path.exists test.
GetQr(p, id) ==
    /\ Accept(p, [kind |-> "get_qr", id |-> id])
    /\ loc' = [loc EXCEPT ![p] = Locals(Null, id, <<>>, <<>>)]
    /\ Goto(p, IF QrCached(id) THEN "send" ELSE "lookup")
    /\ UNCHANGED <<variant, appointments, today, stores>>

\* get_worker_qr on a miss: the record is read and the payload rebuilt.
QrLookup(p) ==
    /\ pc[p] = "lookup"
    /\ LET row == ReadWorker(loc[p].health_id)
       IN  IF row = Null
           THEN /\ Return(p, Error(404, "Not found"))
                /\ UNCHANGED loc
           ELSE /\ loc' = [loc EXCEPT
                     ![p].content = IF variant = "csv" THEN RebuildPayloadCsv(row)
                                    ELSE RebuildPayloadDb(row),
                     ![p].face_filename = row.face_filename]
                /\ Goto(p, "compose")
    /\ UNCHANGED <<variant, appointments, today, stores, req, pre>>

\* send_file(path): the file as it is now; a missing file is an unhandled
\* FileNotFoundError, which the framework answers with 500.
QrSend(p) ==
    /\ pc[p] = "send"
    /\ LET f == FileAt(qrs, FileName(loc[p].health_id))
       IN  IF Exists(f) THEN Return(p, [status |-> 200, body |-> f])
           ELSE Return(p, Error(500, "FileNotFoundError"))
    /\ UNCHANGED <<variant, appointments, today, stores, req, loc, pre>>

(***************************************************************************)
(* Environment                                                             *)
(***************************************************************************)
\* A cached QR image is deleted from QR_IMAGE_DIR.
InvalidateQr(f) ==
    /\ Exists(FileAt(qrs, f))
    /\ qrs' = WriteFile(qrs, f, NoFile)
    /\ UNCHANGED <<variant, appointments, today, csv, workers, faces, pc, req, loc, resp, pre>>

RECURSIVE After(_, _)
After(d, n) == IF n = 0 THEN d ELSE After(NextDay(d), n - 1)

\* Midnight UTC passes.
Tick ==
    /\ \E k \in 0..(MaxDays - 1) : today = After(StartDay, k)
    /\ today' = NextDay(today)
    /\ UNCHANGED <<variant, appointments, csv, workers, faces, qrs, pc, req, loc, resp, pre>>

(***************************************************************************)
(* Specifications                                                          *)
(***************************************************************************)
\* One step of the handler thread p is running.
Step(p) ==
    \/ SaveFaceOpen(p)
    \/ SaveFaceWrite(p)
    \/ ComposeQrImage(p)
    \/ SaveQrOpen(p)
    \/ SaveQrWrite(p)
    \/ CsvRead(p)
    \/ CsvOpen(p)
    \/ CsvWrite(p)
    \/ DbQuery(p)
    \/ DbCommit(p)
    \/ QrLookup(p)
    \/ QrSend(p)
    \/ Finish(p)

Quiet == \A p \in Threads : pc[p] = "idle"

\* Requests served one at a time.
Next ==
    \/ \E data \in Submissions : Register(1, data)
    \/ \E id \in PathIds : GetWorker(1, id)
    \/ \E id \in PathIds : GetQr(1, id)
    \/ \E id \in PathIds : GetFace(1, id)
    \/ Step(1)
    \/ Quiet /\ \E f \in FileNames : InvalidateQr(f)
    \/ Quiet /\ Tick

Spec == Init /\ [][Next]_vars

(***************************************************************************)
(* Concurrent registrations against the flat file (app.py has no lock)     *)
(***************************************************************************)
\* Two submissions for one identifier and one for another.
ConcSubmissions == {Full(W1), Padded(W1)} \cup SubmissionsW2

InitConc == Init /\ variant = "csv"

StepConc(p) ==
    \/ SaveFaceOpen(p)
    \/ SaveFaceWrite(p)
    \/ ComposeQrImage(p)
    \/ SaveQrOpen(p)
    \/ SaveQrWrite(p)
    \/ CsvRead(p)
    \/ CsvOpen(p)
    \/ CsvWrite(p)

\* Each thread serves one registration; the responses are then compared.
NextConc ==
    \/ \E p \in Threads : \E data \in ConcSubmissions : Register(p, data)
    \/ \E p \in Threads : StepConc(p)

SpecConc == InitConc /\ [][NextConc]_vars

(***************************************************************************)
(* Reads of the flat file while a registration rewrites it                 *)
(***************************************************************************)
\* Thread 1 serves registrations one after another; thread 2 serves
\* GET /api/workers/<health_id>, each read arriving and being answered within
\* one request of thread 1 or between two.
NextTorn ==
    \/ pc[2] = "idle" /\ \E data \in ConcSubmissions : Register(1, data)
    \/ StepConc(1)
    \/ Finish(1)
    \/ \E id \in {W1, W2} : GetWorker(2, id)
    \/ Finish(2)

SpecTorn == InitConc /\ [][NextTorn]_vars

(***************************************************************************)
(* Registrations that fail after the identifier check                      *)
(***************************************************************************)
\* Two workers, then submissions that raise: while parsing, while the flat
\* file is written (a phone number that is a lone surrogate), at the date of
\* the relational variant.
FailSubmissions(v) ==
    {Padded(W1), [Full(W2) EXCEPT !.fullName = Str(<<" ", "Ravi">>)],
     [Full(W1) EXCEPT !.age = Str(<<"a", "b">>)],
     [Full(W2) EXCEPT !.registrationDate = Str(DateSlash)]}
        \cup (IF v = "csv" THEN {[Full(W1) EXCEPT !.phone = Str(<<Surrogate>>)]}
              ELSE {})

NextFail ==
    \/ \E data \in FailSubmissions(variant) : Register(1, data)
    \/ StepConc(1)
    \/ DbQuery(1)
    \/ DbCommit(1)
    \/ Finish(1)

SpecFail == Init /\ [][NextFail]_vars

(***************************************************************************)
(* Concurrent fetches of a QR image that is not cached                     *)
(***************************************************************************)
\* A worker is registered, the QR file is deleted, and both threads serve
\* GET /api/workers/<health_id>/qr.png for that worker while no registration
\* is running.
NextQrRace ==
    \/ Quiet /\ Register(1, Padded(W1))
    \/ StepConc(1)
    \/ Quiet /\ InvalidateQr(FileName(W1))
    \/ \E p \in Threads : req[1].kind # "register" /\ GetQr(p, W1)
    \/ \E p \in Threads : QrLookup(p) \/ QrSend(p) \/ Finish(p)
    \/ ComposeQrImage(2) \/ SaveQrOpen(2) \/ SaveQrWrite(2)

SpecQrRace == InitConc /\ [][NextQrRace]_vars

(***************************************************************************)
(* POST /api/appointments (app_back.py)                                    *)
(***************************************************************************)
\* How many appointments are created through the API.
MaxAppointments == 3

\* x or None of a stripped text.
OrNone(text) == IF text = <<>> THEN Null ELSE Str(text)

\* Faulty variant: the appointment is created as already confirmed.
NewAppointmentConfirmed(id, worker_id, speciality, requested_time) ==
    [id |-> id,
     worker_id |-> worker_id,
     doctor_id |-> Null,
     doctor_speciality |-> OrNone(speciality),
     status |-> "confirmed",
     requested_time |-> OrNone(requested_time)]

\* The row create_appointment adds; doctor_id is left unset.
NewAppointment(id, worker_id, speciality, requested_time) ==
    [id |-> id,
     worker_id |-> worker_id,
     doctor_id |-> Null,
     doctor_speciality |-> OrNone(speciality),
     status |-> "pending",
     requested_time |-> OrNone(requested_time)]

\* create_appointment.  The three texts are read before the identifier is
\* tested and outside the try block: a value that has no strip() is an
\* unhandled AttributeError, which the framework answers with 500.
CreateAppointment(p, data) ==
    /\ variant = "db"
    /\ Len(appointments) < SeedCount + MaxAppointments
    /\ Accept(p, [kind |-> "appointment", data |-> data])
    /\ LET health_id == TextField(data.healthId)
           speciality == TextField(data.speciality)
           requested_time == TextField(data.requestedTime)
           exc == FirstExc(<<health_id, speciality, requested_time>>)
           at == IF IsExc(health_id) THEN 0 ELSE DbFind(workers, health_id.s)
       IN  IF IsExc(exc)
           THEN /\ Return(p, Error(500, exc.kind))
                /\ UNCHANGED appointments
           ELSE IF ~Truthy(health_id)
           THEN /\ Return(p, Error(400, "healthId required"))
                /\ UNCHANGED appointments
           ELSE IF at = 0
           THEN /\ Return(p, Error(404, "Worker not found"))
                /\ UNCHANGED appointments
           ELSE /\ appointments' =
                     Append(appointments,
                            NewAppointment(Len(appointments) + 1, workers[at].id,
                                           speciality.s, requested_time.s))
                /\ Return(p, [status |-> 201,
                              body |-> [message |-> "Appointment created"]])
    /\ UNCHANGED <<variant, today, stores, loc>>

W1002 == <<"W10", "0", "2">>

AppointmentIds ==
    {Str(W1), Str(<<" ">> \o W1 \o <<" ">>), Str(W1002), Str(W2), Str(Unknown),
     Null, Str(<<>>), Str(<<" ", " ">>), Num(12)}

AppointmentSubmissions ==
    [healthId : AppointmentIds,
     speciality : {Null, Str(<<" ", "ENT">>), Num(7)},
     requestedTime : {Null, Str(<<"2025-10-02", " ", "09:00">>)}]

InitAppointments == Init /\ variant = "db"

NextAppointments ==
    \/ \E data \in AppointmentSubmissions : CreateAppointment(1, data)
    \/ Finish(1)

SpecAppointments == InitAppointments /\ [][NextAppointments]_vars

(***************************************************************************)
(* _generate_qr_image on its own, over any state of FACE_IMAGE_DIR         *)
(***************************************************************************)
\* What a file of FACE_IMAGE_DIR may hold: nothing, no bytes, a PNG, a PNG cut
\* after its header, bytes that are no image.
FaceFiles ==
    {NoFile, EmptyFile, B64Decode(FaceGood), B64Decode(FaceHeaderOnly),
     B64Decode(FaceNotImage)}

\* The texts to encode: the empty one and the payload of the first worker.
ComposeContents ==
    {<<>>, RebuildPayloadDb(DbRowAsDict(SeedWorker(1, StartDay)))}

\* get_worker_qr on thread 1 is about to call
\* _generate_qr_image(content, health_id, face_filename).
InitCompose ==
    /\ variant \in {"csv", "db"}
    /\ today = StartDay
    /\ csv = <<>>
    /\ workers = <<>>
    /\ faces \in [FileNames -> FaceFiles]
    /\ qrs = [f \in FileNames |-> NoFile]
    /\ pc = [p \in Threads |-> IF p = 1 THEN "compose" ELSE "idle"]
    /\ req = [p \in Threads |->
                 IF p = 1 THEN [kind |-> "get_qr", id |-> W1] ELSE NoReq]
    /\ \E content \in ComposeContents, fn \in {<<>>} \cup FileNames :
          loc = [p \in Threads |->
                    IF p = 1 THEN Locals(Null, W1, content, fn) ELSE NoLoc]
    /\ resp = [p \in Threads |-> NoResp]
    /\ pre = [p \in Threads |-> NoPre]
    /\ appointments = <<>>

NextCompose ==
    \/ ComposeQrImage(1)
    \/ SaveQrOpen(1)
    \/ SaveQrWrite(1)
    \/ QrSend(1)

SpecCompose == InitCompose /\ [][NextCompose]_vars

(***************************************************************************)
(* Properties                                                              *)
(***************************************************************************)
\* Thread p has answered a request of the kind and not yet gone idle.
Done(p, kind) == pc[p] = "done" /\ req[p].kind = kind
Succeeded(p) == Done(p, "register") /\ resp[p].status = 201

\* The IdentityStore of a snapshot as a sequence of string records, whichever
\* backend holds it.
Records(snap) ==
    IF variant = "csv" THEN snap.csv
    ELSE [i \in 1..Len(snap.workers) |-> DbRowAsDict(snap.workers[i])]
RowsOf(recs, id) == {i \in 1..Len(recs) : recs[i].health_id = id}
Holds(recs, id) == RowsOf(recs, id) # {}

\* s consists of whitespace only.
Blank(s) == \A i \in 1..Len(s) : s[i] = " "
\* t is s without its leading and trailing whitespace.
IsTrimOf(t, s) ==
    /\ t # <<>> => t[1] # " " /\ t[Len(t)] # " "
    /\ \E a \in 0..(Len(s) - Len(t)) :
          /\ SubSeq(s, a + 1, a + Len(t)) = t
          /\ \A i \in 1..Len(s) : (i <= a \/ i > a + Len(t)) => s[i] = " "

\* The stored columns of the text keys, in the order of TextKeys.
TextCols ==
    <<"full_name", "gender", "phone", "address", "native_state", "blood_group",
      "marital_status", "language", "financial_status">>

\* C1: registrations served one after another keep exactly one record per
\* identifier: no two rows ever share a health_id, and when a registration
\* has answered 201 the store holds one row of its identifier, carrying the
\* values this registration parsed, and the rows of every other identifier
\* are the rows it held when the request arrived.
C1_OneRecordPerIdentifier ==
    LET now == Records(Snapshot)
    IN  /\ \A i, j \in 1..Len(now) : now[i].health_id = now[j].health_id => i = j
        /\ \A p \in Threads : Succeeded(p) =>
              LET l == loc[p].l
                  before == Records(pre[p])
                  mine == RowsOf(now, l.health_id)
                  row == now[CHOOSE i \in mine : TRUE]
              IN  /\ Cardinality(mine) = 1
                  /\ row.full_name = l.full_name
                  /\ row.gender = l.gender
                  /\ row.phone = l.phone
                  /\ row.address = l.address
                  /\ row.native_state = l.native_state
                  /\ row.blood_group = l.blood_group
                  /\ row.marital_status = l.marital_status
                  /\ row.language = l.language
                  /\ row.financial_status = l.financial_status
                  /\ row.age = (IF Truthy(l.age) THEN IntToText(l.age.n) ELSE <<>>)
                  /\ \/ row.registration_date = l.registration_date.s
                     \/ Strptime(row.registration_date)
                            = Strptime(l.registration_date.s)
                  /\ row.face_filename = loc[p].face_filename
                  /\ row.qr_filename = FileName(l.health_id)
                  /\ \A k \in 1..Len(before) : before[k].health_id # l.health_id
                        => \E m \in 1..Len(now) : now[m] = before[k]
                  /\ \A m \in 1..Len(now) : now[m].health_id # l.health_id
                        => \E k \in 1..Len(before) : before[k] = now[m]

\* A registration has replaced the record of its identifier, which carried
\* another name, while the store also holds the other identifier.
C1_Witness ==
    \E p \in Threads :
        /\ Succeeded(p)
        /\ LET before == Records(pre[p])
               id == loc[p].health_id
           IN  /\ id = W1
               /\ Holds(before, W2)
               /\ \E k \in RowsOf(before, id) :
                     before[k].full_name # loc[p].l.full_name

\* What GET /api/workers/{id} must show for a text key of the submission.
ShowsText(v, got) == IF IsNull(v) THEN got = <<>> ELSE IsTrimOf(got, v.s)

\* The age as the claim words it: the submitted non-negative integer, or
\* absent.  A negative age is outside the claim.
ShowsAgeAsClaimed(v, got) ==
    CASE IsNull(v) -> got = <<>>
      [] IsNum(v) -> v.n >= 0 => got = IntToText(v.n)
      [] IsStr(v) -> IsTrimOf(got, v.s)

\* The age as the code stores it: zero is stored as absent.
ShowsAge(v, got) ==
    CASE IsNull(v) -> got = <<>>
      [] IsNum(v) -> /\ v.n > 0 => got = IntToText(v.n)
                     /\ v.n = 0 => got = <<>>
      [] IsStr(v) -> IsTrimOf(got, v.s)

ShowsDate(v, got) == IF Truthy(v) THEN got = v.s ELSE got = Strftime(today)

\* The record GET /api/workers/{id} returns right after the registration that
\* thread p has just answered matches the submission, but for the age.
ShowsSubmission(p) ==
    LET data == req[p].data
    IN  \E id \in PathIds :
          /\ IsTrimOf(id, data.healthId.s)
          /\ WorkerResponse(id).status = 200
          /\ LET got == WorkerResponse(id).body
             IN  /\ got.health_id = id
                 /\ \A i \in 1..Len(TextKeys) :
                       ShowsText(data[TextKeys[i]], got[TextCols[i]])
                 /\ ShowsDate(data.registrationDate, got.registration_date)

AgeShown(p) == WorkerResponse(loc[p].health_id).body.age

NoIdentifier(data) == IsNull(data.healthId) \/ (IsStr(data.healthId) /\ Blank(data.healthId.s))

\* C3: a registration without an identifier is answered 400 and leaves the
\* record store, the face files and the QR files as they were, photo or not.
C3_BlankIdentifierWritesNothing ==
    \A p \in Threads :
        (Done(p, "register") /\ NoIdentifier(req[p].data)) =>
            /\ resp[p].status = 400
            /\ Snapshot = pre[p]

\* A blank identifier sent with a decodable photo has been refused while the
\* stores held a worker.
C3_Witness ==
    \E p \in Threads :
        /\ Done(p, "register")
        /\ req[p].data.healthId = Str(<<" ", " ">>)
        /\ ~IsExc(DecodeFace(req[p].data.faceImage))
        /\ resp[p].status = 400
        /\ Holds(Records(Snapshot), W2)

\* The record of the identifier in the store as it is now.
RowNow(id) == LET now == Records(Snapshot) IN now[CHOOSE i \in RowsOf(now, id) : TRUE]

\* The row a registration writes, as it reads back.
RowOfRequest(p) ==
    CsvRow(loc[p].l, loc[p].face_filename, FileName(loc[p].health_id))

\* C4: two registrations served concurrently by the flat-file variant that
\* both answered 201 leave a record of each identifier when the identifiers
\* differ, and exactly one record, equal to what one of the two wrote, when
\* they are the same: no update is lost.
C4_NoLostUpdate ==
    \A p, q \in Threads :
        (p # q /\ Succeeded(p) /\ Succeeded(q)) =>
            IF loc[p].health_id # loc[q].health_id
            THEN /\ Holds(csv, loc[p].health_id)
                 /\ Holds(csv, loc[q].health_id)
            ELSE /\ Cardinality(RowsOf(csv, loc[p].health_id)) = 1
                 /\ RowNow(loc[p].health_id) \in {RowOfRequest(p), RowOfRequest(q)}

\* The QR file of the identifier, in a directory.
QrFile(dir, id) == FileAt(dir, FileName(id))

\* C5: a GET of qr.png for a worker that has a record and no cached QR image
\* answers 200 with a composed image, and that image is in QR_IMAGE_DIR
\* before the response is sent, so that the next GET finds it cached.
C5_RegenerateOnMiss ==
    \A p \in Threads :
        /\ (pc[p] = "send" /\ loc[p].regenerated) =>
              QrFile(qrs, loc[p].health_id) = loc[p].img
        /\ (Done(p, "get_qr") /\ Holds(Records(pre[p]), req[p].id)
                /\ ~Exists(QrFile(pre[p].qrs, req[p].id))) =>
              /\ resp[p].status = 200
              /\ resp[p].body.t = "png"
              /\ QrFile(qrs, req[p].id) = resp[p].body
              /\ QrCached(req[p].id)

\* The QR image of a registered worker had been deleted; a GET has composed it
\* again, with the face photo on it, and answered.
C5_Witness ==
    \E p \in Threads :
        /\ Done(p, "get_qr") /\ resp[p].status = 200
        /\ loc[p].regenerated /\ loc[p].overlay = "done"
        /\ Holds(pre[p].csv, req[p].id)
        /\ ~Exists(QrFile(pre[p].qrs, req[p].id))
        /\ QrCached(req[p].id)

\* C6: a GET of qr.png answers 404 exactly when, as the request arrives,
\* there is neither a cached QR image nor a record for the identifier, and
\* 200 otherwise; a 404 leaves every store as it was.
C6_NotFoundIffNothingKnown ==
    \A p \in Threads :
        Done(p, "get_qr") =>
            LET cached == Exists(QrFile(pre[p].qrs, req[p].id))
                known == Holds(Records(pre[p]), req[p].id)
            IN  /\ resp[p].status = 404 <=> (~cached /\ ~known)
                /\ resp[p].status \in {200, 404}
                /\ resp[p].status = 404 => Snapshot = pre[p]

\* An unknown identifier has been answered 404 while another worker has a
\* record and a cached QR image.
C6_Witness ==
    \E p \in Threads :
        /\ Done(p, "get_qr") /\ req[p].id = Unknown
        /\ resp[p].status = 404
        /\ Holds(Records(Snapshot), W1) /\ QrCached(W1)

\* A QR image is removed in this step only by the deletion of that file.
QrRemovedOnlyByInvalidation ==
    \A f \in DOMAIN qrs :
        (Exists(qrs[f]) /\ ~Exists(FileAt(qrs', f))) => InvalidateQr(f)

\* C7: whenever the store holds a record of an identifier, a GET of its
\* qr.png answers 200 with an image, with or without a face photo; and no
\* step of a registration, of a read or of a failing request removes a QR
\* image: only the deletion of the file does.
C7_QrRetrievableUntilInvalidated ==
    /\ [](\A p \in Threads :
            (Done(p, "get_qr") /\ Holds(Records(pre[p]), req[p].id)) =>
                resp[p].status = 200 /\ resp[p].body.t = "png")
    /\ [][QrRemovedOnlyByInvalidation]_vars

\* A worker registered without a photo, whose QR image had been deleted, has
\* been served a QR image again.
C7_Witness ==
    \E p \in Threads :
        /\ Done(p, "get_qr") /\ resp[p].status = 200
        /\ Holds(Records(pre[p]), req[p].id)
        /\ RowNow(req[p].id).face_filename = <<>>
        /\ RowNow(req[p].id).qr_filename # <<>>
        /\ ~Exists(QrFile(pre[p].qrs, req[p].id))
        /\ resp[p].body.overlay = NoOverlay

\* The submission parses and its date can be stored: sent without a photo it
\* is answered 201.
Acceptable(data) ==
    LET l == Normalize(variant, data, today)
    IN  /\ l.t = "ok"
        /\ variant = "db" => ~IsExc(Strptime(l.registration_date.s))

\* C8: a registration whose faceImage does not decode, and which is
\* acceptable otherwise, is answered 201; it writes nothing to
\* FACE_IMAGE_DIR, its record has an empty face_filename, its QR image
\* carries no overlay, and the faceUrl of the response is null.
C8_BadPhotoStillRegisters ==
    \A p \in Threads :
        (Done(p, "register") /\ Truthy(req[p].data.faceImage)
            /\ IsExc(DecodeFace(req[p].data.faceImage))
            /\ Acceptable(req[p].data)) =>
                /\ resp[p].status = 201
                /\ faces = pre[p].faces
                /\ RowNow(loc[p].health_id).face_filename = <<>>
                /\ QrFile(qrs, loc[p].health_id) = Png(loc[p].content, NoOverlay)
                /\ resp[p].body.faceUrl = Null

\* A worker who has a face file on disk has been registered again with a
\* photo whose base64 padding is wrong.
C8_Witness ==
    \E p \in Threads :
        /\ Succeeded(p)
        /\ req[p].data.faceImage = Str(FaceBadPadding)
        /\ Exists(FileAt(pre[p].faces, FileName(loc[p].health_id)))
        /\ Loadable(FileAt(faces, FileName(loc[p].health_id)))

\* C9: whatever the text and whatever FACE_IMAGE_DIR holds, when the face
\* file is missing, is no image, or any step of the overlay block raises, the
\* image composed is the one composed without a face; it is what is saved and
\* sent, and the request is answered 200.
C9_OverlayFailureGivesPlainQr ==
    \A p \in Threads :
        (loc[p].t = "locals" /\ loc[p].regenerated /\ loc[p].overlay # "done") =>
            /\ loc[p].img = ComposeQr(loc[p].content, <<>>, faces, "none")
            /\ loc[p].img = Png(loc[p].content, NoOverlay)
            /\ pc[p] = "send" => QrFile(qrs, loc[p].health_id) = loc[p].img
            /\ pc[p] = "done" =>
                  resp[p] = [status |-> 200, body |-> Png(loc[p].content, NoOverlay)]

\* The face file is a good PNG and the paste itself, the last step of the
\* overlay block, has raised; the plain image has been sent.
C9_Witness ==
    \E p \in Threads :
        /\ pc[p] = "done" /\ loc[p].overlay = "paste"
        /\ Loadable(FileAt(faces, loc[p].face_filename))
        /\ loc[p].content # <<>>
        /\ resp[p].body = Png(loc[p].content, NoOverlay)

\* The submission is Full(W1) but for its age and vaccination count.
OnlyNumbersVary(data) ==
    [data EXCEPT !.age = Num(30), !.vaccinationCount = Num(2)] = Full(W1)

\* v is omitted or is not the text of an integer.
NotAnInteger(v) == ~Truthy(v) \/ (IsStr(v) /\ IsExc(ParseIntText(v.s)))

\* C10: a registration is never failed by its age or vaccination count: it is
\* answered 201, an age or count that is omitted or is no integer is stored
\* as absent (age) or zero (count), and what is stored is never negative.
C10_NumbersNeverFail ==
    \A p \in Threads :
        (Done(p, "register") /\ OnlyNumbersVary(req[p].data)) =>
            /\ resp[p].status = 201
            /\ NotAnInteger(req[p].data.age) => RowNow(W1).age = <<>>
            /\ RowNow(W1).age = <<>> \/ AllDigits(RowNow(W1).age)
            /\ variant = "db" =>
                  LET w == workers[DbFind(workers, W1)]
                  IN  /\ w.vaccination_count.n >= 0
                      /\ NotAnInteger(req[p].data.vaccinationCount)
                            => w.vaccination_count.n = 0

\* The keys of a QR payload, in order.
PayloadKeys(content) == [i \in 1..Len(content) |-> content[i][1]]

NineFields ==
    <<"healthId", "fullName", "gender", "address", "nativeState", "bloodGroup",
      "maritalStatus", "financialStatus", "registrationDate">>

\* C11: every text handed to _generate_qr_image, by a registration or by a
\* regeneration on a miss, in either variant, is the payload of the nine
\* fields identifier, name, gender, address, native state, blood group,
\* marital status, financial status and registration date, in that order.
C11_NineFieldPayload ==
    \A p \in Threads :
        (loc[p].t = "locals" /\ loc[p].regenerated) =>
            PayloadKeys(loc[p].content) = NineFields

\* Thread p is inside create_worker, past the parsing, for its identifier.
Upserting(p) == req[p].kind = "register" /\ loc[p].t = "locals" /\ pc[p] # "done"

\* C12: at every point of an upsert of identifier X into the flat file, each
\* record of another identifier that the file held when the request arrived
\* is still in the file, and a GET of it answered meanwhile is a 200.
C12_NoTornStore ==
    \A p \in Threads :
        Upserting(p) =>
            \A k \in 1..Len(pre[p].csv) :
                LET y == pre[p].csv[k].health_id
                IN  y # loc[p].health_id =>
                        /\ Holds(csv, y)
                        /\ \A q \in Threads :
                              (Done(q, "get_worker") /\ req[q].id = y) =>
                                  resp[q].status = 200

\* The submission passes the identifier check of create_worker.
HasIdentifier(data) == IsStr(data.healthId) /\ ~Blank(data.healthId.s)

\* The two directories differ at most in the file of that name.
SameButFor(dir, old, filename) ==
    \A f \in (DOMAIN dir \cup DOMAIN old) \ {filename} : FileAt(dir, f) = FileAt(old, f)

\* C13: a registration that passes the identifier check and is not answered
\* 201 is answered 500 with an error body, and the records, flat file or
\* table, are exactly those the request found; only the face and QR files of
\* its own identifier may have changed.
C13_FailureLeavesRecords ==
    \A p \in Threads :
        (Done(p, "register") /\ HasIdentifier(req[p].data)
            /\ resp[p].status # 201) =>
                LET id == Strip(req[p].data.healthId.s)
                IN  /\ resp[p].status = 500
                    /\ "error" \in DOMAIN resp[p].body
                    /\ csv = pre[p].csv
                    /\ workers = pre[p].workers
                    /\ SameButFor(faces, pre[p].faces, FileName(id))
                    /\ SameButFor(qrs, pre[p].qrs, FileName(id))

\* Thread q, serving a GET of qr.png, found no cached file.
Missed(q) ==
    /\ req[q].kind = "get_qr"
    /\ pc[q] \in {"lookup", "compose", "qr_open", "qr_write"} \/ loc[q].regenerated

\* C14: when two GETs of the same qr.png both find no cached file and both
\* regenerate it, each is answered 200 with the complete image it composed,
\* never a missing or half-written file, and once both are answered the file
\* left in QR_IMAGE_DIR is the image one of them composed.
C14_ConcurrentRegenerationSafe ==
    \A p, q \in Threads :
        (p # q /\ Done(p, "get_qr") /\ loc[p].regenerated
            /\ Missed(q) /\ req[q].id = req[p].id) =>
                /\ resp[p].status = 200
                /\ resp[p].body = loc[p].img
                /\ Done(q, "get_qr") =>
                      QrFile(qrs, req[p].id) \in {loc[p].img, loc[q].img}

\* Every handler has produced its response: no request is in progress.
Settled == \A p \in Threads : pc[p] \in {"idle", "done"}

\* The images _generate_qr_image may compose today from the record: the
\* payload rebuilt from the row, with the face file the row names.
Compositions(row) ==
    {ComposeQr(IF variant = "csv" THEN RebuildPayloadCsv(row)
               ELSE RebuildPayloadDb(row),
               row.face_filename, faces, fault) : fault \in OverlayFaults}

\* C15: whenever no request is in progress, the cached QR image of every
\* worker that has a record is a composition of the payload of the worker's
\* current record with the face file that record names, also after the
\* identifier was registered again, one request after the other or two at
\* the same time.
C15_QrCoherentWithRecord ==
    Settled =>
        \A i \in 1..Len(Records(Snapshot)) :
            LET row == Records(Snapshot)[i]
            IN  QrCached(row.health_id) =>
                    QrFile(qrs, row.health_id) \in Compositions(row)

\* The value is a text or is left out.
TextOrAbsent(v) == IsNull(v) \/ IsStr(v)

\* Some worker of the table has that row id.
WorkerExists(table, worker_id) == \E k \in 1..Len(table) : table[k].id = worker_id

\* What create_appointment is to do, for the submissions that satisfy wellTyped:
\* 400 without an identifier and 404 for an unknown one, adding nothing; on
\* 201 exactly one row more, pending, of the worker named; and every row
\* added through the API is pending and of a worker that exists.
AppointmentContract(wellTyped(_)) ==
    /\ \A p \in Threads :
          (Done(p, "appointment") /\ wellTyped(req[p].data)) =>
              LET data == req[p].data
                  before == pre[p].appointments
              IN  /\ NoIdentifier(data) =>
                        resp[p].status = 400 /\ appointments = before
                  /\ (HasIdentifier(data)
                        /\ DbFind(pre[p].workers, Strip(data.healthId.s)) = 0) =>
                        resp[p].status = 404 /\ appointments = before
                  /\ resp[p].status = 201 =>
                        /\ HasIdentifier(data)
                        /\ Len(appointments) = Len(before) + 1
                        /\ SubSeq(appointments, 1, Len(before)) = before
                        /\ appointments[Len(appointments)].status = "pending"
                        /\ appointments[Len(appointments)].worker_id =
                              workers[DbFind(workers, Strip(data.healthId.s))].id
                  /\ resp[p].status # 201 => appointments = before
    /\ \A i \in (SeedCount + 1)..Len(appointments) :
          /\ appointments[i].status = "pending"
          /\ WorkerExists(workers, appointments[i].worker_id)

AnySubmission(data) == TRUE
TextsWellTyped(data) ==
    TextOrAbsent(data.speciality) /\ TextOrAbsent(data.requestedTime)

HasFaceReference(snap, id) ==
    LET recs == Records(snap)
    IN  /\ Holds(recs, id)
        /\ recs[CHOOSE i \in RowsOf(recs, id) : TRUE].face_filename # <<>>

\* C17: a GET of face.png arriving while no request is in progress is
\* answered 200 exactly when the worker's record names a face file, and 404
\* otherwise; after a registration with a photo and a later one without (or
\* with one that does not decode) it is answered 404.
C17_FaceAgreesWithRecord ==
    \A p \in Threads :
        Done(p, "get_face") =>
            /\ resp[p].status \in {200, 404}
            /\ resp[p].status = 200 <=> HasFaceReference(pre[p], req[p].id)

====
